---- MODULE Spec2Model ----
(***************************************************************************)
(* Incremental covariance accumulators of src/main.cpp: TKahanAccumulator,  *)
(* TTypedCovariationCalculator<double> ("Dummy"),                           *)
(* TTypedCovariationCalculator<TKahanAccumulator> ("Kahan"),                *)
(* TWelfordCovariationCalculator ("Welford") and the drive loop of main().  *)
(*                                                                         *)
(* A double is modelled as a rational <<num, den>> (den > 0, lowest terms); *)
(* <<0, 0>> is NaN and <<1, 0>>, <<-1, 0>> are the infinities.  Every      *)
(* arithmetic operation of the code is an exact rational operation followed *)
(* by a rounding to prec significant bits (round to nearest, ties to even,  *)
(* as IEEE 754 binary64 does with 53 bits).  prec = 0 is exact arithmetic.  *)
(***************************************************************************)
EXTENDS Integers, Sequences, FiniteSets

VARIABLES
    prec,        \* significant bits of a double in this run; 0 = exact arithmetic
    acc,         \* a stand-alone TKahanAccumulator: [Sum, Addition]
    accFed,      \* the values given to acc's operator+=, in order
    accRounded,  \* TRUE once some addition/subtraction of acc has rounded
    accFwd,      \* how many of accFed were given before the negations began
    calcs,       \* the three calculators, by Name()
    fed,         \* per calculator: the pairs given to its Add, in order
    last,        \* the last call made on a calculator and what it returned
    pre,         \* calcs as it was before that call
    pc,          \* position of main()
    m,           \* index into interestingMeans
    i,           \* loop counter of main()
    ci,          \* calculatorIdx / position in a range-for over calculators
    xDiff,
    yDiff,
    actualCovariation,
    maxErrors,
    rows         \* TPrinter::Rows of the current printer (values given to AddToRow)

vars == <<prec, acc, accFed, accRounded, accFwd, calcs, fed, last, pre,
          pc, m, i, ci, xDiff, yDiff, actualCovariation, maxErrors, rows>>

accVars == <<acc, accFed, accRounded, accFwd>>
calcVars == <<calcs, fed, last, pre>>
mainVars == <<pc, m, i, ci, xDiff, yDiff, actualCovariation, maxErrors, rows>>

----------------------------------------------------------------------------
(* Bounds of the model *)

\* significant bits of the reduced-precision double used with the accumulator
\* and the calculators' interface
AccPrec == 3
\* significant bits of the reduced-precision double used by the drive loop
LoopPrec == 7
\* longest sequence of operator+= calls on the stand-alone accumulator
MaxAccAdds == 4
\* longest sequence of Add calls on the calculators' interface
MaxAdds == 3
\* the two entries of interestingMeans, scaled down
MeanSmall == 6
MeanLarge == 10
\* the drive loop's count, scaled down
count == 12
\* the number of checkpoint intervals (the 100 of count / 100), scaled down
Intervals == 6

----------------------------------------------------------------------------
(* Rational arithmetic *)

Abs(n) == IF n < 0 THEN -n ELSE n

RECURSIVE Gcd(_, _)
Gcd(a, b) == IF b = 0 THEN a ELSE Gcd(b, a % b)

\* the rational n/d in lowest terms, d # 0
Q(n, d) ==
    LET g == Gcd(Abs(n), Abs(d))
        s == IF d < 0 THEN -1 ELSE 1
    IN  <<(s * n) \div g, (s * d) \div g>>

Zero == <<0, 1>>
NaN == <<0, 0>>
Int2Q(n) == <<n, 1>>
IsFinite(a) == a[2] # 0

QAdd(a, b) == Q(a[1] * b[2] + b[1] * a[2], a[2] * b[2])
QSub(a, b) == Q(a[1] * b[2] - b[1] * a[2], a[2] * b[2])
QMul(a, b) == Q(a[1] * b[1], a[2] * b[2])
QDiv(a, b) == Q(a[1] * b[2], a[2] * b[1])
QNeg(a) == <<-a[1], a[2]>>
QAbs(a) == <<Abs(a[1]), a[2]>>
QLe(a, b) == a[1] * b[2] <= b[1] * a[2]
QLt(a, b) == a[1] * b[2] < b[1] * a[2]

\* a / b with 2^(p-1) <= a/b < 2^p after scaling by up/down, rounded to an
\* integer mantissa (ties to even) and scaled back
RECURSIVE RoundScaled(_, _, _, _, _)
RoundScaled(a, b, up, down, p) ==
    IF a >= (2 ^ p) * b THEN RoundScaled(a, 2 * b, 2 * up, down, p)
    ELSE IF a < (2 ^ (p - 1)) * b THEN RoundScaled(2 * a, b, up, 2 * down, p)
    ELSE LET mant == a \div b
             rem == a % b
             rounded == IF 2 * rem > b \/ (2 * rem = b /\ mant % 2 = 1)
                        THEN mant + 1 ELSE mant
         IN  Q(rounded * up, down)

\* the double nearest to the real number q
Rd(p, q) ==
    IF p = 0 \/ q[1] = 0 THEN q
    ELSE LET r == RoundScaled(Abs(q[1]), q[2], 1, 1, p)
         IN  IF q[1] < 0 THEN QNeg(r) ELSE r

\* the arithmetic of double
FAdd(p, a, b) == IF IsFinite(a) /\ IsFinite(b) THEN Rd(p, QAdd(a, b)) ELSE NaN
FSub(p, a, b) == IF IsFinite(a) /\ IsFinite(b) THEN Rd(p, QSub(a, b)) ELSE NaN
FMul(p, a, b) == IF IsFinite(a) /\ IsFinite(b) THEN Rd(p, QMul(a, b)) ELSE NaN
FDiv(p, a, b) ==
    IF ~(IsFinite(a) /\ IsFinite(b)) THEN NaN
    ELSE IF b[1] = 0
         THEN (IF a[1] = 0 THEN NaN ELSE IF a[1] > 0 THEN <<1, 0>> ELSE <<-1, 0>>)
         ELSE Rd(p, QDiv(a, b))
FAbs(a) == QAbs(a)
\* conversion of a size_t to double
FromCount(p, n) == Rd(p, Int2Q(n))

----------------------------------------------------------------------------
(* TKahanAccumulator *)

KahanInit(value) == [Sum |-> value, Addition |-> Zero]

KahanAddWrongSign(p, a, value) ==
    LET y == FSub(p, value, a.Addition)
        t == FAdd(p, a.Sum, y)
    IN  [Sum |-> t, Addition |-> FAdd(p, FSub(p, t, a.Sum), y)]

\* operator += (const double value)
KahanAdd(p, a, value) ==
    LET y == FSub(p, value, a.Addition)
        t == FAdd(p, a.Sum, y)
    IN  [Sum |-> t, Addition |-> FSub(p, FSub(p, t, a.Sum), y)]

\* operator double() const
KahanValue(p, a) == FAdd(p, a.Sum, a.Addition)

\* TRUE when one of the four roundings of operator+= changes its operand
KahanAddRounds(p, a, value) ==
    LET ye == QSub(value, a.Addition)
        y == Rd(p, ye)
        te == QAdd(a.Sum, y)
        t == Rd(p, te)
        de == QSub(t, a.Sum)
        d == Rd(p, de)
        ce == QSub(d, y)
    IN  y # ye \/ t # te \/ d # de \/ Rd(p, ce) # ce

----------------------------------------------------------------------------
(* The calculators *)

Variants == <<"Dummy", "Kahan", "Welford">>
Names == {"Dummy", "Kahan", "Welford"}

\* TTypedCovariationCalculator<double>, freshly constructed
DummyInit == [Count |-> 0, SumX |-> Zero, SumY |-> Zero, SumProducts |-> Zero]

\* TTypedCovariationCalculator<double>::Add
DummyAdd(p, s, x, y) ==
    [Count |-> s.Count + 1,
     SumX |-> FAdd(p, s.SumX, x),
     SumY |-> FAdd(p, s.SumY, y),
     SumProducts |-> FAdd(p, s.SumProducts, FMul(p, x, y))]

\* TTypedCovariationCalculator<double>::Covariation
DummyCovariation(p, s) ==
    LET n == FromCount(p, s.Count)
    IN  FDiv(p, FSub(p, s.SumProducts, FDiv(p, FMul(p, s.SumX, s.SumY), n)), n)

\* TTypedCovariationCalculator<TKahanAccumulator>, freshly constructed
KahanCalcInit ==
    [Count |-> 0, SumX |-> KahanInit(Zero), SumY |-> KahanInit(Zero),
     SumProducts |-> KahanInit(Zero)]

\* TTypedCovariationCalculator<TKahanAccumulator>::Add
KahanCalcAdd(p, s, x, y) ==
    [Count |-> s.Count + 1,
     SumX |-> KahanAdd(p, s.SumX, x),
     SumY |-> KahanAdd(p, s.SumY, y),
     SumProducts |-> KahanAdd(p, s.SumProducts, FMul(p, x, y))]

\* TTypedCovariationCalculator<TKahanAccumulator>::Covariation
KahanCalcCovariation(p, s) ==
    LET n == FromCount(p, s.Count)
        sx == KahanValue(p, s.SumX)
        sy == KahanValue(p, s.SumY)
        sp == KahanValue(p, s.SumProducts)
    IN  FDiv(p, FSub(p, sp, FDiv(p, FMul(p, sx, sy), n)), n)

\* TWelfordCovariationCalculator, freshly constructed
WelfordInit == [Count |-> 0, MeanX |-> Zero, MeanY |-> Zero, SumProducts |-> Zero]

\* the update with the cross term taken from both old means
WelfordAddOldMeans(p, s, x, y) ==
    LET n == FromCount(p, s.Count + 1)
        deltaX == FSub(p, x, s.MeanX)
        sumProducts == FAdd(p, s.SumProducts, FMul(p, deltaX, FSub(p, y, s.MeanY)))
        meanY == FAdd(p, s.MeanY, FDiv(p, FSub(p, y, s.MeanY), n))
        meanX == FAdd(p, s.MeanX, FDiv(p, deltaX, n))
    IN  [Count |-> s.Count + 1, MeanX |-> meanX, MeanY |-> meanY,
         SumProducts |-> sumProducts]

\* the update with meanY advanced before the cross term is taken
WelfordAddMeanYFirst(p, s, x, y) ==
    LET n == FromCount(p, s.Count + 1)
        meanX == FAdd(p, s.MeanX, FDiv(p, FSub(p, x, s.MeanX), n))
        meanY == FAdd(p, s.MeanY, FDiv(p, FSub(p, y, s.MeanY), n))
        sumProducts ==
            FAdd(p, s.SumProducts, FMul(p, FSub(p, x, meanX), FSub(p, y, meanY)))
    IN  [Count |-> s.Count + 1, MeanX |-> meanX, MeanY |-> meanY,
         SumProducts |-> sumProducts]

\* TWelfordCovariationCalculator::Add
WelfordAdd(p, s, x, y) ==
    LET n == FromCount(p, s.Count + 1)
        meanX == FAdd(p, s.MeanX, FDiv(p, FSub(p, x, s.MeanX), n))
        sumProducts ==
            FAdd(p, s.SumProducts, FMul(p, FSub(p, x, meanX), FSub(p, y, s.MeanY)))
        meanY == FAdd(p, s.MeanY, FDiv(p, FSub(p, y, s.MeanY), n))
    IN  [Count |-> s.Count + 1, MeanX |-> meanX, MeanY |-> meanY,
         SumProducts |-> sumProducts]

\* TWelfordCovariationCalculator::Covariation
WelfordCovariation(p, s) == FDiv(p, s.SumProducts, FromCount(p, s.Count))

\* ICovariationCalculator::Add, dispatched on the object's class
CalcAdd(p, v, s, x, y) ==
    CASE v = "Dummy" -> DummyAdd(p, s, x, y)
      [] v = "Kahan" -> KahanCalcAdd(p, s, x, y)
      [] v = "Welford" -> WelfordAdd(p, s, x, y)

\* ICovariationCalculator::Covariation, dispatched on the object's class
CalcCovariation(p, v, s) ==
    CASE v = "Dummy" -> DummyCovariation(p, s)
      [] v = "Kahan" -> KahanCalcCovariation(p, s)
      [] v = "Welford" -> WelfordCovariation(p, s)

\* the three calculators main() creates
FreshCalculators ==
    [v \in Names |->
        CASE v = "Dummy" -> DummyInit
          [] v = "Kahan" -> KahanCalcInit
          [] v = "Welford" -> WelfordInit]

NoCall == [op |-> "none", v |-> "none", x |-> Zero, y |-> Zero,
           value |-> Zero, outcome |-> "none"]

----------------------------------------------------------------------------
(* Exact reference values (no rounding), computed from what was fed *)

RECURSIVE SumSeq(_)
SumSeq(s) == IF s = <<>> THEN Zero ELSE QAdd(s[Len(s)], SumSeq(SubSeq(s, 1, Len(s) - 1)))

Xs(f) == [k \in 1..Len(f) |-> f[k][1]]
Ys(f) == [k \in 1..Len(f) |-> f[k][2]]

\* population covariance sum_k (x_k - meanX)(y_k - meanY) / n of the pairs f
ExactCov(f) ==
    LET n == Int2Q(Len(f))
        meanX == QDiv(SumSeq(Xs(f)), n)
        meanY == QDiv(SumSeq(Ys(f)), n)
        devs == [k \in 1..Len(f) |->
                    QMul(QSub(f[k][1], meanX), QSub(f[k][2], meanY))]
    IN  QDiv(SumSeq(devs), n)

----------------------------------------------------------------------------
(* Initial state *)

\* every object as constructed, main() at its first statement
Constructed ==
    /\ acc = KahanInit(Zero)
    /\ accFed = <<>>
    /\ accRounded = FALSE
    /\ accFwd = 0
    /\ calcs = FreshCalculators
    /\ fed = [v \in Names |-> <<>>]
    /\ last = NoCall
    /\ pre = FreshCalculators
    /\ pc = "config"
    /\ m = 1
    /\ i = 0
    /\ ci = 1
    /\ xDiff = Int2Q(1)
    /\ yDiff = Int2Q(1)
    /\ actualCovariation = Int2Q(1)
    /\ maxErrors = [v \in Names |-> Zero]
    /\ rows = <<>>

\* the calculators and the accumulator used through their interface
Init == prec \in {0, AccPrec} /\ Constructed

\* a run of main()
InitMain == prec \in {0, LoopPrec} /\ Constructed

----------------------------------------------------------------------------
(* The stand-alone accumulator *)

AccValues == {Int2Q(k) : k \in {-3, 1, 2, 3, 8, 16}}

\* acc += value
AccAdd(value) ==
    /\ Len(accFed) < MaxAccAdds
    /\ accFwd = Len(accFed)
    /\ acc' = KahanAdd(prec, acc, value)
    /\ accFed' = Append(accFed, value)
    /\ accFwd' = accFwd + 1
    /\ accRounded' = (accRounded \/ KahanAddRounds(prec, acc, value))
    /\ UNCHANGED <<prec, calcVars, mainVars>>

\* acc += -v for the latest v not yet taken back
AccUndo ==
    /\ accFwd >= 1
    /\ Len(accFed) < 2 * accFwd
    /\ LET value == QNeg(accFed[2 * accFwd - Len(accFed)])
       IN  /\ acc' = KahanAdd(prec, acc, value)
           /\ accFed' = Append(accFed, value)
           /\ accRounded' = (accRounded \/ KahanAddRounds(prec, acc, value))
    /\ UNCHANGED <<prec, accFwd, calcVars, mainVars>>

NextAcc ==
    \/ \E value \in AccValues : AccAdd(value)
    \/ AccUndo

SpecAcc == Init /\ [][NextAcc]_vars

----------------------------------------------------------------------------
(* The calculators' interface, every variant given the same pairs *)

Inputs == {Int2Q(k) : k \in 1..3}

\* the call changing a calculator's own aggregates on a read
CovariationInPlace(v) ==
    /\ last' = [op |-> "Covariation", v |-> v, x |-> Zero, y |-> Zero,
                value |-> CalcCovariation(prec, v, calcs[v]),
                outcome |-> "returned"]
    /\ pre' = calcs
    /\ calcs' = [calcs EXCEPT ![v].SumProducts =
                    IF v = "Kahan"
                    THEN KahanInit(CalcCovariation(prec, v, calcs[v]))
                    ELSE CalcCovariation(prec, v, calcs[v])]
    /\ UNCHANGED <<prec, accVars, fed, mainVars>>

\* calculator->Add(x, y) on each calculator
Add(x, y) ==
    /\ \A v \in Names : Len(fed[v]) < MaxAdds
    /\ calcs' = [v \in Names |-> CalcAdd(prec, v, calcs[v], x, y)]
    /\ fed' = [v \in Names |-> Append(fed[v], <<x, y>>)]
    /\ last' = [op |-> "Add", v |-> "all", x |-> x, y |-> y,
                value |-> Zero, outcome |-> "returned"]
    /\ pre' = calcs
    /\ UNCHANGED <<prec, accVars, mainVars>>

\* calculator->Covariation() on the calculator named v
Covariation(v) ==
    /\ last' = [op |-> "Covariation", v |-> v, x |-> Zero, y |-> Zero,
                value |-> CalcCovariation(prec, v, calcs[v]),
                outcome |-> "returned"]
    /\ pre' = calcs
    /\ UNCHANGED <<prec, accVars, calcs, fed, mainVars>>

Next ==
    \/ \E x \in Inputs, y \in Inputs : Add(x, y)
    \/ \E v \in Names : Covariation(v)

Spec == Init /\ [][Next]_vars

----------------------------------------------------------------------------
(* main(): the drive loop *)

interestingMeans == <<Int2Q(MeanSmall), Int2Q(MeanLarge)>>

\* count / 100, the distance between two checkpoints
Interval == count \div Intervals

\* Error(target, value)
Error(p, target, value) == FDiv(p, FAbs(FSub(p, value, target)), FAbs(target))

\* std::max(a, b)
Max(a, b) == IF QLt(a, b) THEN b ELSE a

\* the numeric literal 100 as a double
Hundred(p) == Rd(p, Int2Q(100))

\* the calculators created once, before the loop over the means
ConfigureKeepCalculators ==
    /\ pc = "config"
    /\ xDiff' = Int2Q(1)
    /\ yDiff' = Int2Q(1)
    /\ actualCovariation' = FMul(prec, Int2Q(1), Int2Q(1))
    /\ maxErrors' = [v \in Names |-> Zero]
    /\ rows' = <<>>
    /\ i' = 0
    /\ pc' = "loop"
    /\ UNCHANGED <<prec, accVars, calcs, fed, last, pre, m, ci>>

\* one pass of the loop over interestingMeans begins: lines 169-190
Configure ==
    /\ pc = "config"
    /\ xDiff' = Int2Q(1)
    /\ yDiff' = Int2Q(1)
    /\ actualCovariation' = FMul(prec, Int2Q(1), Int2Q(1))
    /\ calcs' = FreshCalculators
    /\ fed' = [v \in Names |-> <<>>]
    /\ maxErrors' = [v \in Names |-> Zero]
    /\ rows' = <<>>
    /\ i' = 0
    /\ pc' = "loop"
    /\ UNCHANGED <<prec, accVars, last, pre, m, ci>>

\* i < count and i is a checkpoint: a row labelled i is begun
LoopCheckpoint ==
    /\ pc = "loop"
    /\ i < count
    /\ i # 0 /\ i % Interval = 0
    /\ rows' = Append(rows, [kind |-> "checkpoint", index |-> i, cells |-> <<>>])
    /\ ci' = 1
    /\ pc' = "check"
    /\ UNCHANGED <<prec, accVars, calcVars, m, i, xDiff, yDiff,
                   actualCovariation, maxErrors>>

\* i < count and i is no checkpoint
LoopNoCheckpoint ==
    /\ pc = "loop"
    /\ i < count
    /\ ~(i # 0 /\ i % Interval = 0)
    /\ pc' = "flip"
    /\ UNCHANGED <<prec, accVars, calcVars, m, i, ci, xDiff, yDiff,
                   actualCovariation, maxErrors, rows>>

\* i = count: the loop ends
LoopExit ==
    /\ pc = "loop"
    /\ ~(i < count)
    /\ pc' = "summary"
    /\ UNCHANGED <<prec, accVars, calcVars, m, i, ci, xDiff, yDiff,
                   actualCovariation, maxErrors, rows>>

\* the checkpoint keeping the latest error instead of the largest
CheckpointLatestError ==
    /\ pc = "check"
    /\ LET v == Variants[ci]
           calculatedCovariation == CalcCovariation(prec, v, calcs[v])
           error == FMul(prec, Error(prec, actualCovariation, calculatedCovariation),
                         Hundred(prec))
       IN  /\ last' = [op |-> "Covariation", v |-> v, x |-> Zero, y |-> Zero,
                       value |-> calculatedCovariation, outcome |-> "returned"]
           /\ pre' = calcs
           /\ rows' = [rows EXCEPT ![Len(rows)].cells = Append(@, error)]
           /\ maxErrors' = [maxErrors EXCEPT ![v] = error]
    /\ IF ci = Len(Variants)
       THEN pc' = "flip" /\ ci' = 1
       ELSE pc' = "check" /\ ci' = ci + 1
    /\ UNCHANGED <<prec, accVars, calcs, fed, m, i, xDiff, yDiff, actualCovariation>>

\* one pass of the loop over calculatorIdx: lines 195-201
Checkpoint ==
    /\ pc = "check"
    /\ LET v == Variants[ci]
           calculatedCovariation == CalcCovariation(prec, v, calcs[v])
           error == FMul(prec, Error(prec, actualCovariation, calculatedCovariation),
                         Hundred(prec))
       IN  /\ last' = [op |-> "Covariation", v |-> v, x |-> Zero, y |-> Zero,
                       value |-> calculatedCovariation, outcome |-> "returned"]
           /\ pre' = calcs
           /\ rows' = [rows EXCEPT ![Len(rows)].cells = Append(@, error)]
           /\ maxErrors' = [maxErrors EXCEPT ![v] = Max(maxErrors[v], error)]
    /\ IF ci = Len(Variants)
       THEN pc' = "flip" /\ ci' = 1
       ELSE pc' = "check" /\ ci' = ci + 1
    /\ UNCHANGED <<prec, accVars, calcs, fed, m, i, xDiff, yDiff, actualCovariation>>

\* only xDiff changes sign
FlipXOnly ==
    /\ pc = "flip"
    /\ xDiff' = QNeg(xDiff)
    /\ ci' = 1
    /\ pc' = "add"
    /\ UNCHANGED <<prec, accVars, calcVars, m, i, yDiff, actualCovariation,
                   maxErrors, rows>>

\* xDiff = -xDiff; yDiff = -yDiff
Flip ==
    /\ pc = "flip"
    /\ xDiff' = QNeg(xDiff)
    /\ yDiff' = QNeg(yDiff)
    /\ ci' = 1
    /\ pc' = "add"
    /\ UNCHANGED <<prec, accVars, calcVars, m, i, actualCovariation, maxErrors, rows>>

\* one pass of the loop over calculators: calculator->Add(xMean + xDiff, yMean + yDiff);
\* after the last one, ++i
Feed ==
    /\ pc = "add"
    /\ LET v == Variants[ci]
           x == FAdd(prec, interestingMeans[m], xDiff)
           y == FAdd(prec, interestingMeans[m], yDiff)
       IN  /\ calcs' = [calcs EXCEPT ![v] = CalcAdd(prec, v, calcs[v], x, y)]
           /\ fed' = [fed EXCEPT ![v] = Append(@, <<x, y>>)]
           /\ last' = [op |-> "Add", v |-> v, x |-> x, y |-> y,
                       value |-> Zero, outcome |-> "returned"]
           /\ pre' = calcs
    /\ IF ci = Len(Variants)
       THEN pc' = "loop" /\ ci' = 1 /\ i' = i + 1
       ELSE pc' = "add" /\ ci' = ci + 1 /\ i' = i
    /\ UNCHANGED <<prec, accVars, m, xDiff, yDiff, actualCovariation, maxErrors, rows>>

\* the MaxError row: lines 212-216
Summary ==
    /\ pc = "summary"
    /\ rows' = Append(rows, [kind |-> "MaxError", index |-> i,
                             cells |-> [k \in 1..Len(Variants) |->
                                           maxErrors[Variants[k]]]])
    /\ pc' = "print"
    /\ UNCHANGED <<prec, accVars, calcVars, m, i, ci, xDiff, yDiff,
                   actualCovariation, maxErrors>>

\* printer.Print(), then the next mean or the end of main()
PrinterPrint ==
    /\ pc = "print"
    /\ IF m < Len(interestingMeans)
       THEN m' = m + 1 /\ pc' = "config"
       ELSE m' = m /\ pc' = "done"
    /\ UNCHANGED <<prec, accVars, calcVars, i, ci, xDiff, yDiff,
                   actualCovariation, maxErrors, rows>>

NextMain ==
    \/ Configure
    \/ LoopCheckpoint
    \/ LoopNoCheckpoint
    \/ LoopExit
    \/ Checkpoint
    \/ Flip
    \/ Feed
    \/ Summary
    \/ PrinterPrint

SpecMain == InitMain /\ [][NextMain]_vars

----------------------------------------------------------------------------
(* Properties of the calculators' interface (specification Spec) *)

\* C1: in exact arithmetic, for each variant and every sequence of n >= 1 Add
\* calls, Covariation() returns the population covariance of the pairs
\* ingested, sum (x - meanX)(y - meanY) / n (dividing by n).
C1_CovariationIsPopulationCovariance ==
    (prec = 0 /\ last.op = "Covariation" /\ pre[last.v].Count >= 1)
        => last.value = ExactCov(fed[last.v])

\* the online variant fed (1,1), (2,2), (3,3) has returned 2/3
C1_Witness ==
    /\ prec = 0
    /\ last.op = "Covariation"
    /\ last.v = "Welford"
    /\ fed["Welford"] = << <<Int2Q(1), Int2Q(1)>>, <<Int2Q(2), Int2Q(2)>>,
                           <<Int2Q(3), Int2Q(3)>> >>
    /\ last.value = <<2, 3>>

\* C2: Covariation() on a calculator whose Count is 0 signals a precondition
\* failure instead of returning a value.
C2_ZeroCountSignalsFailure ==
    (last.op = "Covariation" /\ pre[last.v].Count = 0) => last.outcome = "failed"

\* C3 as claimed: Add of the online variant adds (x - oldMeanX) * (y - oldMeanY)
\* to C, both means being the ones before the call, and advances meanX only
\* after C.
C3_CrossTermFromOldMeans ==
    last.op = "Add" =>
        LET s == pre["Welford"]
            t == calcs["Welford"]
            deltaX == FSub(prec, last.x, s.MeanX)
        IN  t.SumProducts =
                FAdd(prec, s.SumProducts,
                     FMul(prec, deltaX, FSub(prec, last.y, s.MeanY)))

\* C3 as amended: Add of the online variant, after incrementing the count to
\* n, first advances meanX by (x - meanX) / n, then adds
\* (x - newMeanX) * (y - oldMeanY) to C, then advances meanY by (y - meanY) / n.
C3_CrossTermFromNewMeanX ==
    last.op = "Add" =>
        LET s == pre["Welford"]
            t == calcs["Welford"]
            n == FromCount(prec, t.Count)
        IN  /\ t.Count = s.Count + 1
            /\ t.MeanX = FAdd(prec, s.MeanX,
                              FDiv(prec, FSub(prec, last.x, s.MeanX), n))
            /\ t.SumProducts =
                   FAdd(prec, s.SumProducts,
                        FMul(prec, FSub(prec, last.x, t.MeanX),
                             FSub(prec, last.y, s.MeanY)))
            /\ t.MeanY = FAdd(prec, s.MeanY,
                              FDiv(prec, FSub(prec, last.y, s.MeanY), n))

\* an Add on a non-empty online calculator that moved both means and C
C3_Witness ==
    /\ last.op = "Add"
    /\ pre["Welford"].Count >= 1
    /\ calcs["Welford"].MeanX # pre["Welford"].MeanX
    /\ calcs["Welford"].MeanY # pre["Welford"].MeanY
    /\ calcs["Welford"].SumProducts # pre["Welford"].SumProducts

\* C4: with Count >= 1, Covariation() leaves Count and every running aggregate
\* of every calculator as they were, and what it returned is what the same
\* call returns on the state it left.
C4_CovariationReadOnly ==
    (last.op = "Covariation" /\ pre[last.v].Count >= 1)
        => /\ calcs = pre
           /\ last.value = CalcCovariation(prec, last.v, calcs[last.v])

\* a query of the compensated variant under rounding, on non-trivial sums
C4_Witness ==
    /\ last.op = "Covariation"
    /\ last.v = "Kahan"
    /\ prec # 0
    /\ pre["Kahan"].Count >= 2
    /\ pre["Kahan"].SumProducts.Addition # Zero

----------------------------------------------------------------------------
(* Properties of TKahanAccumulator (specification SpecAcc) *)

ExactSum == SumSeq(accFed)

\* accFed is v_1..v_k followed by -v_k..-v_1, k >= 1
IsRoundTrip(f) ==
    /\ Len(f) >= 2
    /\ Len(f) % 2 = 0
    /\ \A k \in 1..(Len(f) \div 2) : f[Len(f) + 1 - k] = QNeg(f[k])

RECURSIVE MaxAbs(_)
MaxAbs(f) ==
    IF f = <<>> THEN Zero
    ELSE LET rest == MaxAbs(SubSeq(f, 1, Len(f) - 1))
             h == QAbs(f[Len(f)])
         IN  IF QLe(rest, h) THEN h ELSE rest

\* the relative spacing of doubles, 2^(1 - prec)
Epsilon(p) == Q(2, 2 ^ p)

\* C5: the reported value Sum + Addition is never farther from the exact sum of
\* the values added than the plain total Sum is, and equals the exact sum
\* whenever no step has rounded.
C5_ValueIsBestEstimate ==
    /\ QLe(QAbs(QSub(KahanValue(prec, acc), ExactSum)),
           QAbs(QSub(acc.Sum, ExactSum)))
    /\ ~accRounded => KahanValue(prec, acc) = ExactSum

----------------------------------------------------------------------------
(* Properties of the drive loop (specification SpecMain) *)

\* n^2 times the exact population covariance of the pairs f, n = Len(f)
ScaledCov(f) == QMul(QMul(Int2Q(Len(f)), Int2Q(Len(f))), ExactCov(f))

\* C7 as claimed: the exact population covariance of the first n generated
\* pairs is d * d = actualCovariation for every n >= 1.
C7_CovarianceIsDSquaredForEveryN ==
    \A v \in Names :
        Len(fed[v]) >= 1 => ExactCov(fed[v]) = actualCovariation

\* C7 as amended: the exact population covariance of the first n generated
\* pairs is d * d for every even n >= 2 and d * d * (1 - 1/n^2) for every odd
\* n >= 1, whatever the mean.
C7_CovarianceIsDSquaredForEvenN ==
    \A v \in Names :
        LET n == Len(fed[v])
        IN  n >= 1 =>
                IF n % 2 = 0
                THEN ExactCov(fed[v]) = actualCovariation
                ELSE ScaledCov(fed[v]) = QMul(Int2Q(n * n - 1), actualCovariation)

\* the online calculator holds four generated pairs of the second mean
C7_Witness ==
    /\ m = 2
    /\ Len(fed["Welford"]) = 4
    /\ fed["Welford"][1] # fed["Welford"][2]

\* C9: at a checkpoint labelled i every calculator has ingested exactly the
\* same i pairs, i >= 1, so Covariation() is never called at Count = 0; the
\* calculators of a configuration start empty, and inside one pass over the
\* calculators those already fed are exactly one pair ahead.
C9_Lockstep ==
    /\ pc \in {"loop", "check", "flip", "summary", "print", "done"} =>
           \A v \in Names : calcs[v].Count = i /\ Len(fed[v]) = i
                            /\ fed[v] = fed["Dummy"]
    /\ pc = "check" =>
           /\ i >= 1
           /\ rows[Len(rows)].kind = "checkpoint"
           /\ rows[Len(rows)].index = i
    /\ pc = "add" =>
           \A k \in 1..Len(Variants) :
               /\ calcs[Variants[k]].Count = (IF k < ci THEN i + 1 ELSE i)
               /\ Len(fed[Variants[k]]) = calcs[Variants[k]].Count
    /\ last.op = "Covariation" => pre[last.v].Count >= 1

\* a checkpoint of the second configuration, two calculators already queried
C9_Witness ==
    /\ pc = "check"
    /\ m = 2
    /\ ci = 3
    /\ last.op = "Covariation"

\* the errors recorded so far for the k-th calculator by the checkpoint rows
Recorded(k) ==
    {rows[r].cells[k] : r \in {r \in 1..Len(rows) :
                                  rows[r].kind = "checkpoint"
                                  /\ Len(rows[r].cells) >= k}}

\* the largest member of a set of doubles, 0 for the empty set
Largest(S) ==
    IF S = {} THEN Zero ELSE CHOOSE a \in S : \A b \in S : QLe(b, a)

\* the sample indices the checkpoint rows are labelled with
CheckpointIndices == {rows[r].index : r \in {r \in 1..Len(rows) :
                                                rows[r].kind = "checkpoint"}}

\* the error the k-th calculator has now
ErrorNow(k) ==
    FMul(prec, Error(prec, actualCovariation,
                     CalcCovariation(prec, Variants[k], calcs[Variants[k]])),
         Hundred(prec))

\* C10 as claimed: maxErrors[v] is at every point the largest error recorded
\* for v (0 before the first), and at the end of the run the reported MaxError
\* is the largest error of v over the sample indices at checkpoint intervals up
\* to and including the final sample count.
C10_MaxErrorIncludesFinalCount ==
    /\ pc # "config" =>
           \A k \in 1..Len(Variants) : maxErrors[Variants[k]] = Largest(Recorded(k))
    /\ pc \in {"print", "done"} =>
           \A k \in 1..Len(Variants) :
               rows[Len(rows)].cells[k] =
                   Largest(Recorded(k) \cup
                           (IF count % Interval = 0 THEN {ErrorNow(k)} ELSE {}))

\* C10 as amended: maxErrors[v] is at every point the largest error recorded
\* for v (0 before the first), and at the end of the run the reported MaxError
\* is the largest error of v over the checkpoints, which are the multiples of
\* the checkpoint interval greater than 0 and less than the final sample count
\* (the state after the last sample is not examined).
C10_MaxErrorOverCheckpoints ==
    /\ pc # "config" =>
           \A k \in 1..Len(Variants) : maxErrors[Variants[k]] = Largest(Recorded(k))
    /\ pc \in {"print", "done"} =>
           /\ rows[Len(rows)].kind = "MaxError"
           /\ \A k \in 1..Len(Variants) :
                  rows[Len(rows)].cells[k] = Largest(Recorded(k))
           /\ CheckpointIndices = {n \in 1..(count - 1) : n % Interval = 0}

\* the end of a run whose calculators recorded different errors at different
\* checkpoints
C10_Witness ==
    /\ pc = "print"
    /\ Cardinality(Recorded(1)) >= 2
    /\ rows[Len(rows)].cells[1] # Zero

====
